---- MODULE Spec2Model ----
(***************************************************************************)
(* State-machine model of the simulation core of src/index.js (a           *)
(* flappy-style arcade game): the flap() input handler, the update(dt)     *)
(* tick, startGame/resetGame, generatePipeAtX, circleRectCollision and     *)
(* the best-score persistence adapter.                                     *)
(*                                                                         *)
(* Numbers.  The source computes in IEEE doubles; the model computes the   *)
(* same expressions in exact fixed point:                                  *)
(*   - positions and lengths (x, y, radius, width, heights) are integers   *)
(*     counting 1/PosScale px,                                             *)
(*   - the vertical velocity vy is an integer counting 1/VelScale px/s,    *)
(*   - dt is an integer number of milliseconds, a multiple of DtStep, so   *)
(*     that every product of the source is an integer in these units,      *)
(*   - rotation counts 1/RotScale rad and is rounded down to that grid     *)
(*     (it is presentation state; no other quantity is rounded).           *)
(* Rendering and audio calls (draw, ensureAudio, the sound effects) and the *)
(* parallax offsets bgOffset, which only the renderer reads, are left out. *)
(***************************************************************************)
EXTENDS Integers, Sequences, FiniteSets, TLC

VARIABLES
  state,          \* src/index.js:182  started, gameOver, score, best, newBestAchieved
  strawberry,     \* src/index.js:192  x, y, radius, vy, rotation
  pipes,          \* src/index.js:208  sequence of pipe records, head first
  storage,        \* localStorage entry STORAGE_KEYS.best
  last,           \* history: the last handler that ran, the phase it ran in, its dt
  clock,          \* history: milliseconds update() has advanced the current run by
  runs,           \* history: startGame() calls made so far
  retiredPassed,  \* history: pipes of the current run shifted out with passed = TRUE
  retiredUnpassed,\* history: pipes of the current run shifted out with passed = FALSE
  probe           \* input and output of a pure function applied in isolation

vars == <<state, strawberry, pipes, storage, last, clock, runs,
          retiredPassed, retiredUnpassed, probe>>

gameVars == <<state, strawberry, pipes, storage>>

----------------------------------------------------------------------------
(* Units *)

PosScale == 625
VelScale == 5
RotScale == 3000
DtStep == (VelScale * 1000) \div PosScale

Px(n) == n * PosScale

(* Bounds of the exploration *)

MaxClock == 9280
MaxRuns == 2

----------------------------------------------------------------------------
(* Program constants *)

GAME_WIDTH == 360
GAME_HEIGHT == 640
strawberryX == 80
strawberryRadius == 18
gravity == 1800
flapImpulse == -420
terminalVelDown == 600
terminalVelUp == -700
pipeGap == 160
pipeWidth == 56
pipeSpacing == 240
pipeSpeed == 125
groundHeight == 72
margin == 40
seedCount == 4
seedOffset == 120
retireMargin == 10

Min(a, b) == IF a < b THEN a ELSE b
Max(a, b) == IF a > b THEN a ELSE b

----------------------------------------------------------------------------
(* Persistence adapter: readBestScore / writeBestScore.                    *)
(* A storage entry is absent, holds a string (a sequence of characters),   *)
(* or belongs to a store every access to which throws.                     *)

Digits == <<"0", "1", "2", "3", "4", "5", "6", "7", "8", "9">>

IsDigit(c) == \E i \in 1..10 : Digits[i] = c

DigitVal(c) == (CHOOSE i \in 1..10 : Digits[i] = c) - 1

RECURSIVE DecimalValue(_)
DecimalValue(s) ==
  IF s = <<>> THEN 0
  ELSE 10 * DecimalValue(SubSeq(s, 1, Len(s) - 1)) + DigitVal(s[Len(s)])

AllDigits(s) == \A i \in 1..Len(s) : IsDigit(s[i])

\* Number(raw) for a string of sign and digit characters: "" is 0, an
\* optionally signed run of digits is its value, anything else is NaN.
Number(raw) ==
  IF raw = <<>> THEN [nan |-> FALSE, val |-> 0]
  ELSE LET signed == raw[1] = "-" \/ raw[1] = "+"
           body == IF signed THEN Tail(raw) ELSE raw
       IN IF body # <<>> /\ AllDigits(body)
          THEN [nan |-> FALSE,
                val |-> IF raw[1] = "-" THEN 0 - DecimalValue(body)
                                        ELSE DecimalValue(body)]
          ELSE [nan |-> TRUE, val |-> 0]

RECURSIVE NatToString(_)
NatToString(n) ==
  IF n < 10 THEN <<Digits[n + 1]>>
  ELSE Append(NatToString(n \div 10), Digits[(n % 10) + 1])

\* String(value) for an integer value.
String(n) == IF n < 0 THEN <<"-">> \o NatToString(0 - n) ELSE NatToString(n)

readBestScore(store) ==
  IF store.kind = "throws" THEN 0
  ELSE LET parsed == IF store.kind = "absent"
                     THEN [nan |-> FALSE, val |-> 0]
                     ELSE Number(store.raw)
       IN IF ~parsed.nan THEN parsed.val ELSE 0

writeBestScore(store, value) ==
  IF store.kind = "throws" THEN store
  ELSE [kind |-> "value", raw |-> String(value)]

\* The entries the store may hold when the page loads.
StoredRaw == {<<"x">>, <<"2">>, <<"-", "2">>}

StoredValues ==
  {[kind |-> "absent", raw |-> <<>>], [kind |-> "throws", raw |-> <<>>]}
    \cup {[kind |-> "value", raw |-> s] : s \in StoredRaw}

----------------------------------------------------------------------------
(* Obstacle generator.  Math.random() is the draw r = n / RandDenom,       *)
(* 0 <= n < RandDenom.                                                     *)

RandDenom == 1000

TopHeightFor_oneMargin(n) ==
  margin + (n * (GAME_HEIGHT - groundHeight - pipeGap - margin)) \div RandDenom

TopHeightFor(n) ==
  margin + (n * (GAME_HEIGHT - groundHeight - pipeGap - margin * 2)) \div RandDenom

generatePipeAtX(x, n) ==
  [x |-> x,
   width |-> Px(pipeWidth),
   topHeight |-> Px(TopHeightFor(n)),
   passed |-> FALSE,
   styleTop |-> "Copilot",
   styleBottom |-> "Sonnet"]

----------------------------------------------------------------------------
(* Collision detector.  The test of the source is dx*dx + dy*dy <= cr*cr;  *)
(* when |dx| or |dy| exceeds cr the test is false, and the model answers   *)
(* so before squaring, which keeps the products within TLC's 32-bit        *)
(* integers.                                                               *)

Abs(a) == IF a < 0 THEN 0 - a ELSE a

circleRectCollision_strict(cx, cy, cr, rx, ry, rw, rh) ==
  LET nearestX == Max(rx, Min(cx, rx + rw))
      nearestY == Max(ry, Min(cy, ry + rh))
      dx == cx - nearestX
      dy == cy - nearestY
  IN IF Abs(dx) > Abs(cr) \/ Abs(dy) > Abs(cr) THEN FALSE
     ELSE dx * dx + dy * dy < cr * cr

circleRectCollision_noFarClamp(cx, cy, cr, rx, ry, rw, rh) ==
  LET nearestX == Max(rx, cx)
      nearestY == Max(ry, cy)
      dx == cx - nearestX
      dy == cy - nearestY
  IN IF Abs(dx) > Abs(cr) \/ Abs(dy) > Abs(cr) THEN FALSE
     ELSE dx * dx + dy * dy <= cr * cr

circleRectCollision(cx, cy, cr, rx, ry, rw, rh) ==
  LET nearestX == Max(rx, Min(cx, rx + rw))
      nearestY == Max(ry, Min(cy, ry + rh))
      dx == cx - nearestX
      dy == cy - nearestY
  IN IF Abs(dx) > Abs(cr) \/ Abs(dy) > Abs(cr) THEN FALSE
     ELSE dx * dx + dy * dy <= cr * cr

----------------------------------------------------------------------------
(* The world: the mutable objects of the program, as one record.           *)

World == [state |-> state, strawberry |-> strawberry, pipes |-> pipes,
          storage |-> storage]

Phase(w) ==
  IF ~w.state.started THEN "Idle"
  ELSE IF w.state.gameOver THEN "Ended"
  ELSE "Running"

\* The draws the game's own calls of Math.random() take (numerators of
\* RandDenom), and the dt values update() is called with (milliseconds).
GameDraws == {0, 500}
DtSet == {0, 232, 4000}

InitialWorld(store) ==
  [state |-> [started |-> FALSE, gameOver |-> FALSE, score |-> 0,
              best |-> readBestScore(store), newBestAchieved |-> FALSE],
   strawberry |-> [x |-> Px(strawberryX), y |-> Px(GAME_HEIGHT) \div 2,
                   radius |-> Px(strawberryRadius), vy |-> 0, rotation |-> 0],
   pipes |-> <<>>,
   storage |-> store]

RECURSIVE seedPipes_noSpacing(_, _, _)
seedPipes_noSpacing(x, i, ns) ==
  IF i > seedCount THEN <<>>
  ELSE <<generatePipeAtX(x, ns[i])>> \o seedPipes_noSpacing(x, i + 1, ns)

RECURSIVE seedPipes(_, _, _)
seedPipes(x, i, ns) ==
  IF i > seedCount THEN <<>>
  ELSE <<generatePipeAtX(x, ns[i])>> \o seedPipes(x + Px(pipeSpacing), i + 1, ns)

startGame(w, ns) ==
  [w EXCEPT !.state.started = TRUE,
            !.state.gameOver = FALSE,
            !.state.score = 0,
            !.strawberry.y = Px(GAME_HEIGHT) \div 2,
            !.strawberry.vy = 0,
            !.pipes = seedPipes(Px(GAME_WIDTH + seedOffset), 1, ns)]

resetGame_keepsScore(w) ==
  [w EXCEPT !.state.started = FALSE,
            !.state.gameOver = FALSE,
            !.state.newBestAchieved = FALSE,
            !.strawberry.y = Px(GAME_HEIGHT) \div 2,
            !.strawberry.vy = 0,
            !.pipes = <<>>]

resetGame_clearsBest(w) ==
  [w EXCEPT !.state.started = FALSE,
            !.state.gameOver = FALSE,
            !.state.score = 0,
            !.state.best = 0,
            !.state.newBestAchieved = FALSE,
            !.strawberry.y = Px(GAME_HEIGHT) \div 2,
            !.strawberry.vy = 0,
            !.pipes = <<>>]

resetGame_keepsFlag(w) ==
  [w EXCEPT !.state.started = FALSE,
            !.state.gameOver = FALSE,
            !.state.score = 0,
            !.strawberry.y = Px(GAME_HEIGHT) \div 2,
            !.strawberry.vy = 0,
            !.pipes = <<>>]

resetGame(w) ==
  [w EXCEPT !.state.started = FALSE,
            !.state.gameOver = FALSE,
            !.state.score = 0,
            !.state.newBestAchieved = FALSE,
            !.strawberry.y = Px(GAME_HEIGHT) \div 2,
            !.strawberry.vy = 0,
            !.pipes = <<>>]

flap_addsImpulse(w, ns) ==
  IF ~w.state.started THEN startGame(w, ns)
  ELSE IF w.state.gameOver THEN resetGame(w)
  ELSE [w EXCEPT !.strawberry.vy = @ + flapImpulse * VelScale]

flap(w, ns) ==
  IF ~w.state.started THEN startGame(w, ns)
  ELSE IF w.state.gameOver THEN resetGame(w)
  ELSE [w EXCEPT !.strawberry.vy = flapImpulse * VelScale]

die(st) == [st EXCEPT !.gameOver = TRUE]

----------------------------------------------------------------------------
(* update(dt), step by step in the order of the source.                    *)

\* strawberry.vy += gravity * dtS, then the two clamps.
integrateVelocity_noDownClamp(vy, dt) ==
  LET v1 == vy + (gravity * VelScale * dt) \div 1000
  IN IF v1 < terminalVelUp * VelScale THEN terminalVelUp * VelScale ELSE v1

integrateVelocity_skipsGravityAfterFlap(vy, dt) ==
  LET v1 == IF vy = flapImpulse * VelScale THEN vy
            ELSE vy + (gravity * VelScale * dt) \div 1000
      v2 == IF v1 > terminalVelDown * VelScale
            THEN terminalVelDown * VelScale ELSE v1
  IN IF v2 < terminalVelUp * VelScale THEN terminalVelUp * VelScale ELSE v2

integrateVelocity(vy, dt) ==
  LET v1 == vy + (gravity * VelScale * dt) \div 1000
      v2 == IF v1 > terminalVelDown * VelScale
            THEN terminalVelDown * VelScale ELSE v1
  IN IF v2 < terminalVelUp * VelScale THEN terminalVelUp * VelScale ELSE v2

\* strawberry.y += strawberry.vy * dtS
integratePosition(y, vy, dt) == y + (vy * dt) \div DtStep

\* rotation eases toward clamp(vy / 600, -0.6, 0.45) by min(1, dtS * 10).
integrateRotation(rotation, vy, dt) ==
  LET targetRot == Min((45 * RotScale) \div 100,
                       Max(0 - (6 * RotScale) \div 10,
                           (vy * RotScale) \div (600 * VelScale)))
      rotLerp == Min(100, dt)
  IN rotation + ((targetRot - rotation) * rotLerp) \div 100

integrate_oldVelocity(sb, dt) ==
  LET vy == integrateVelocity(sb.vy, dt)
  IN [sb EXCEPT !.vy = vy,
                !.y = integratePosition(sb.y, sb.vy, dt),
                !.rotation = integrateRotation(sb.rotation, vy, dt)]

integrate(sb, dt) ==
  LET vy == integrateVelocity(sb.vy, dt)
  IN [sb EXCEPT !.vy = vy,
                !.y = integratePosition(sb.y, vy, dt),
                !.rotation = integrateRotation(sb.rotation, vy, dt)]

\* Ground and ceiling collision.
hitsGround(sb) == sb.y + sb.radius > Px(GAME_HEIGHT - groundHeight)

groundCollision_noDie(w) ==
  IF hitsGround(w.strawberry)
  THEN [w EXCEPT !.strawberry.y = Px(GAME_HEIGHT - groundHeight) - w.strawberry.radius]
  ELSE w

groundCollision_noClamp(w) ==
  IF hitsGround(w.strawberry)
  THEN [w EXCEPT !.state = die(w.state)]
  ELSE w

groundCollision(w) ==
  IF hitsGround(w.strawberry)
  THEN [w EXCEPT !.strawberry.y = Px(GAME_HEIGHT - groundHeight) - w.strawberry.radius,
                 !.state = die(w.state)]
  ELSE w

hitsCeiling(sb) == sb.y - sb.radius < 0

ceilingCollision_dies(w) ==
  IF hitsCeiling(w.strawberry)
  THEN [w EXCEPT !.strawberry.y = w.strawberry.radius,
                 !.strawberry.vy = 0,
                 !.state = die(w.state)]
  ELSE w

ceilingCollision(w) ==
  IF hitsCeiling(w.strawberry)
  THEN [w EXCEPT !.strawberry.y = w.strawberry.radius,
                 !.strawberry.vy = 0]
  ELSE w

\* Move pipes.
movePipes(ps, dt) ==
  [i \in 1..Len(ps) |->
     [ps[i] EXCEPT !.x = @ - (pipeSpeed * dt * PosScale) \div 1000]]

\* Remove offscreen: at most the first pipe.
retiresHead_whenVisible(ps) ==
  ps # <<>> /\ ps[1].x < Px(GAME_WIDTH)

retiresHead_beforePass(ps) ==
  ps # <<>> /\ ps[1].x + Px(pipeWidth) < Px(strawberryX + strawberryRadius)

retiresHead(ps) ==
  ps # <<>> /\ ps[1].x + Px(pipeWidth) < Px(0 - retireMargin)

retireHead(ps) == IF retiresHead(ps) THEN Tail(ps) ELSE ps

\* Spawn new pipes: at most one, behind the last pipe.
spawnsTail_atScreenEdge(ps) ==
  ps # <<>> /\ ps[Len(ps)].x < Px(GAME_WIDTH)

spawnsTail(ps) ==
  ps # <<>> /\ ps[Len(ps)].x < Px(GAME_WIDTH - pipeSpacing)

spawnTail_atScreenEdge(ps, n) ==
  IF spawnsTail(ps)
  THEN Append(ps, generatePipeAtX(Px(GAME_WIDTH), n))
  ELSE ps

spawnTail(ps, n) ==
  IF spawnsTail(ps)
  THEN Append(ps, generatePipeAtX(ps[Len(ps)].x + Px(pipeSpacing), n))
  ELSE ps

\* Scoring of pipe i.
passesPipe_noLatch(sb, pipe) == sb.x > pipe.x + pipe.width

passesPipe(sb, pipe) == ~pipe.passed /\ sb.x > pipe.x + pipe.width

scorePipe(w, i) ==
  IF passesPipe(w.strawberry, w.pipes[i])
  THEN LET score == w.state.score + 1
       IN IF score > w.state.best
          THEN [w EXCEPT !.pipes[i].passed = TRUE,
                         !.state.score = score,
                         !.state.newBestAchieved = TRUE,
                         !.state.best = score,
                         !.storage = writeBestScore(w.storage, score)]
          ELSE [w EXCEPT !.pipes[i].passed = TRUE,
                         !.state.score = score]
  ELSE w

\* Collision of the strawberry with the two segments of pipe i.
hitsPipe_topOnly(sb, pipe) ==
  circleRectCollision(sb.x, sb.y, sb.radius,
                      pipe.x, 0, pipe.width, pipe.topHeight)

hitsPipe(sb, pipe) ==
  LET bottomY == pipe.topHeight + Px(pipeGap)
      bottomHeight == Px(GAME_HEIGHT - groundHeight) - bottomY
  IN \/ circleRectCollision(sb.x, sb.y, sb.radius,
                            pipe.x, 0, pipe.width, pipe.topHeight)
     \/ circleRectCollision(sb.x, sb.y, sb.radius,
                            pipe.x, bottomY, pipe.width, bottomHeight)

collidePipe(w, i) ==
  IF hitsPipe(w.strawberry, w.pipes[i])
  THEN [w EXCEPT !.state = die(w.state)]
  ELSE w

\* for (const pipe of pipes) { scoring; collision }
RECURSIVE scoreAndCollide(_, _)
scoreAndCollide(w, i) ==
  IF i > Len(w.pipes) THEN w
  ELSE scoreAndCollide(collidePipe(scorePipe(w, i), i), i + 1)

\* The body of update(dt) once the run is known to be in progress.
advance(w, dt, n) ==
  LET w1 == [w EXCEPT !.strawberry = integrate(w.strawberry, dt)]
      w2 == ceilingCollision(groundCollision(w1))
      w3 == [w2 EXCEPT !.pipes =
               spawnTail(retireHead(movePipes(w2.pipes, dt)), n)]
  IN scoreAndCollide(w3, 1)

update_ignoresGameOver(w, dt, n) ==
  IF ~w.state.started THEN w ELSE advance(w, dt, n)

update(w, dt, n) ==
  IF ~w.state.started \/ w.state.gameOver THEN w ELSE advance(w, dt, n)

----------------------------------------------------------------------------
(* The state machine.                                                      *)

NoProbe == [fn |-> "none"]

\* The draws a handler can take: only startGame and a spawning update draw.
SeedDraws(w) ==
  IF Phase(w) = "Idle" THEN [1..seedCount -> GameDraws]
  ELSE {[i \in 1..seedCount |-> 0]}

SpawnDraws(w, dt) ==
  IF Phase(w) = "Running" /\ spawnsTail(retireHead(movePipes(w.pipes, dt)))
  THEN GameDraws ELSE {0}

Init ==
  /\ \E store \in StoredValues :
       /\ state = InitialWorld(store).state
       /\ strawberry = InitialWorld(store).strawberry
       /\ pipes = InitialWorld(store).pipes
       /\ storage = InitialWorld(store).storage
  /\ last = [op |-> "load", from |-> "Idle", dt |-> 0, again |-> FALSE]
  /\ clock = 0
  /\ runs = 0
  /\ retiredPassed = 0
  /\ retiredUnpassed = 0
  /\ probe = NoProbe

Becomes(w) ==
  /\ state' = w.state
  /\ strawberry' = w.strawberry
  /\ pipes' = w.pipes
  /\ storage' = w.storage

\* A pointerdown or keydown event: one call of flap().
Flap ==
  /\ Phase(World) = "Idle" => runs < MaxRuns
  /\ \E ns \in SeedDraws(World) : Becomes(flap(World, ns))
  /\ last' = [op |-> "flap", from |-> Phase(World), dt |-> 0,
              again |-> /\ Phase(World) = "Running"
                        /\ last.op = "flap" /\ last.from = "Running"]
  /\ clock' = IF Phase(World) = "Running" THEN clock ELSE 0
  /\ runs' = IF Phase(World) = "Idle" THEN runs + 1 ELSE runs
  /\ retiredPassed' = IF Phase(World) = "Running" THEN retiredPassed ELSE 0
  /\ retiredUnpassed' = IF Phase(World) = "Running" THEN retiredUnpassed ELSE 0
  /\ UNCHANGED probe

\* One animation frame: one call of update(dt).
Tick(dt) ==
  /\ Phase(World) = "Running" => clock + dt <= MaxClock
  /\ \E n \in SpawnDraws(World, dt) : Becomes(update(World, dt, n))
  /\ last' = [op |-> "tick", from |-> Phase(World), dt |-> dt,
              again |-> FALSE]
  /\ LET running == Phase(World) = "Running"
         moved == movePipes(pipes, dt)
         gone == running /\ retiresHead(moved)
     IN /\ clock' = IF running THEN clock + dt ELSE clock
        /\ retiredPassed' =
             IF gone /\ moved[1].passed THEN retiredPassed + 1 ELSE retiredPassed
        /\ retiredUnpassed' =
             IF gone /\ ~moved[1].passed THEN retiredUnpassed + 1 ELSE retiredUnpassed
  /\ UNCHANGED <<runs, probe>>

Update == \E dt \in DtSet : Tick(dt)

Next == Flap \/ Update

Spec == Init /\ [][Next]_vars

\* The same game played with frames of 120 ms (and a stalled frame of
\* 1440 ms) for the first moments of a run: flapping before every frame
\* takes the strawberry to the top of the playfield before the first pipe
\* arrives.
ClimbDts == {120, 1440}
MaxClimbClock == 1560

UpdateClimb ==
  \E dt \in ClimbDts :
    /\ Phase(World) = "Running" => clock + dt <= MaxClimbClock
    /\ Tick(dt)

NextClimb == Flap \/ UpdateClimb

SpecClimb == Init /\ [][NextClimb]_vars

\* The game as the page drives it: every update comes from loop(ts), which
\* caps the gap between two animation frames at 32 ms.  The frames are
\* 32 ms or 4 s apart; the player flaps to start and to reset, and within a
\* run flaps once the strawberry falls at 320 to 405 pixels per second,
\* which keeps it bobbing at about the same height.
FrameCap == 32
FrameGaps == {32, 4000}
PlayerFlapSpeeds == 320..405
MaxHarnessClock == 8960
MaxHarnessRuns == 1

loop(gap) == Tick(Min(FrameCap, gap))

Loop ==
  \E gap \in FrameGaps :
    /\ Phase(World) = "Running" => clock + Min(FrameCap, gap) <= MaxHarnessClock
    /\ loop(gap)

PlayerFlap ==
  /\ Phase(World) = "Idle" => runs < MaxHarnessRuns
  /\ Phase(World) = "Running" =>
       \E v \in PlayerFlapSpeeds :
         /\ strawberry.vy >= v * VelScale
         /\ strawberry.vy < (v + 1) * VelScale
  /\ Flap

NextHarness == PlayerFlap \/ Loop

SpecHarness == Init /\ [][NextHarness]_vars

----------------------------------------------------------------------------
(* The pure functions applied in isolation: probe records the arguments    *)
(* and the result of the one call made; the game itself stays as loaded.   *)

ProbeXs == {Px(GAME_WIDTH + seedOffset), Px(GAME_WIDTH - 1), Px(0 - pipeWidth)}

ProbeGenerate ==
  /\ probe = NoProbe
  /\ \E x \in ProbeXs, n \in 0..(RandDenom - 1) :
       probe' = [fn |-> "generatePipeAtX", x |-> x, n |-> n,
                 out |-> generatePipeAtX(x, n)]
  /\ UNCHANGED <<state, strawberry, pipes, storage, last, clock, runs,
                 retiredPassed, retiredUnpassed>>

MaxCoord == 5
MaxRadius == 5
MaxSide == 3

ProbeCollide ==
  /\ probe = NoProbe
  /\ \E cx \in (0 - 2)..MaxCoord, cy \in (0 - 2)..MaxCoord, cr \in 0..MaxRadius,
        rx \in 0..1, ry \in 0..1, rw \in 0..MaxSide, rh \in 0..MaxSide :
       probe' = [fn |-> "circleRectCollision",
                 cx |-> cx, cy |-> cy, cr |-> cr,
                 rx |-> rx, ry |-> ry, rw |-> rw, rh |-> rh,
                 out |-> circleRectCollision(cx, cy, cr, rx, ry, rw, rh)]
  /\ UNCHANGED <<state, strawberry, pipes, storage, last, clock, runs,
                 retiredPassed, retiredUnpassed>>

\* update(dt) on a run just started whose strawberry has been put at height
\* y (pixels) with velocity vy (pixels per second): mid is the strawberry
\* after the integration alone, out the world after the whole update.
ProbeYs == {0, strawberryRadius, 20, GAME_HEIGHT \div 2,
            GAME_HEIGHT - groundHeight - strawberryRadius}
ProbeVys == {terminalVelUp, flapImpulse, 0, 100, terminalVelDown}
ProbeDts == {0, 16, 32, 4000}

ProbeWorld(y, vy) ==
  LET w == startGame(World, [i \in 1..seedCount |-> 0])
  IN [w EXCEPT !.strawberry.y = Px(y), !.strawberry.vy = vy * VelScale]

ProbeUpdate ==
  /\ probe = NoProbe
  /\ \E y \in ProbeYs, vy \in ProbeVys, dt \in ProbeDts :
       probe' = [fn |-> "update", y |-> y, vy |-> vy, dt |-> dt,
                 mid |-> integrate(ProbeWorld(y, vy).strawberry, dt),
                 out |-> update(ProbeWorld(y, vy), dt, 0)]
  /\ UNCHANGED <<state, strawberry, pipes, storage, last, clock, runs,
                 retiredPassed, retiredUnpassed>>

NextPure == ProbeGenerate \/ ProbeCollide \/ ProbeUpdate

SpecPure == Init /\ [][NextPure]_vars

----------------------------------------------------------------------------
(* Properties.                                                             *)

Idle == ~state.started
Running == state.started /\ ~state.gameOver
Ended == state.started /\ state.gameOver

\* The step just taken is a call of flap() / of update(dt).
FlapStep == last'.op = "flap"
TickStep == last'.op = "tick"

DefaultAvatar == strawberry.y = Px(GAME_HEIGHT) \div 2 /\ strawberry.vy = 0

PassedInSequence == Cardinality({i \in 1..Len(pipes) : pipes[i].passed})

\* C1 as stated: from Ended, one flap leads to Running with score 0, the
\* new-best flag cleared, the avatar at its default and the pipes re-seeded.
C1_EndedFlapRestarts ==
  [][(Ended /\ FlapStep) =>
       (/\ Running'
        /\ state'.score = 0
        /\ ~state'.newBestAchieved
        /\ DefaultAvatar'
        /\ Len(pipes') = seedCount)]_vars

\* C1 amended: from Ended, one flap resets to Idle (not Running): score 0,
\* new-best flag cleared, avatar at its default position with velocity 0,
\* pipe sequence empty; it is the next flap, from that Idle state, that
\* enters Running and seeds the pipes.
C1_EndedFlapResetsToIdle ==
  [][/\ (Ended /\ FlapStep) =>
          (/\ Idle'
           /\ state'.score = 0
           /\ ~state'.newBestAchieved
           /\ DefaultAvatar'
           /\ pipes' = <<>>)
     /\ (Idle /\ runs >= 1 /\ FlapStep) =>
          (Running' /\ Len(pipes') = seedCount)]_vars

C1_Witness ==
  /\ last.op = "flap" /\ last.from = "Ended"
  /\ Idle /\ pipes = <<>> /\ state.score = 0
  /\ state.best = 1

\* C2: a flap in Idle enters Running with the avatar at y = GAME_HEIGHT/2
\* and velocity 0, score 0, exactly seedCount unpassed pipes at
\* x = GAME_WIDTH + 120 + i * pipeSpacing, and the new-best flag unchanged.
C2_IdleFlapStarts ==
  [][(Idle /\ FlapStep) =>
       (/\ Running'
        /\ DefaultAvatar'
        /\ state'.score = 0
        /\ Len(pipes') = seedCount
        /\ \A i \in 1..seedCount :
             /\ pipes'[i].x = Px(GAME_WIDTH + seedOffset + (i - 1) * pipeSpacing)
             /\ ~pipes'[i].passed
        /\ state'.newBestAchieved = state.newBestAchieved)]_vars

C2_Witness ==
  /\ last.op = "flap" /\ last.from = "Idle"
  /\ Running /\ runs = 2 /\ Len(pipes) = seedCount
  /\ pipes[seedCount].x = Px(GAME_WIDTH + seedOffset + 3 * pipeSpacing)

\* C3: update(dt) in Idle or in Ended changes nothing of the game: avatar,
\* pipes, score, best, new-best flag, phase and stored best all keep their
\* values.
C3_TickOutsideRunningIsNoOp ==
  [][(TickStep /\ ~Running) => UNCHANGED gameVars]_vars

C3_Witness ==
  /\ last.op = "tick" /\ last.from = "Ended" /\ last.dt > 0
  /\ Ended /\ pipes # <<>>
  /\ strawberry.y + strawberry.radius < Px(GAME_HEIGHT - groundHeight)

\* C4: in every reachable state terminalVelUp <= vy <= terminalVelDown.
C4_VelocityClamped ==
  /\ strawberry.vy >= terminalVelUp * VelScale
  /\ strawberry.vy <= terminalVelDown * VelScale

C4_Witness ==
  /\ last.op = "tick" /\ last.from = "Running"
  /\ strawberry.vy = terminalVelDown * VelScale

\* C5: a flap while Running sets vy to exactly flapImpulse, whatever it was,
\* and changes nothing else: phase, score, best, avatar position and pipes.
C5_RunningFlapSetsImpulse ==
  [][(Running /\ FlapStep) =>
       (/\ strawberry'.vy = flapImpulse * VelScale
        /\ strawberry' = [strawberry EXCEPT !.vy = flapImpulse * VelScale]
        /\ UNCHANGED <<state, pipes, storage>>)]_vars

C5_Witness ==
  /\ last.op = "flap" /\ last.from = "Running"
  /\ Running /\ clock > 0
  /\ strawberry.vy = flapImpulse * VelScale

C7_BestNeverDecreases == [][state'.best >= state.best]_vars

\* The reset flap after a run that set the best.
C7_Witness ==
  /\ last.op = "flap" /\ last.from = "Ended" /\ Idle
  /\ runs = 1 /\ state.best = 1 /\ state.score = 0

\* C8: best is a non-negative integer in every reachable state, whatever
\* the store held when the page loaded.
C8_BestNonNegative == state.best >= 0

\* C9: for every draw, generatePipeAtX(x, r) has topHeight >= margin,
\* bottomHeight = GAME_HEIGHT - groundHeight - pipeGap - topHeight >= margin,
\* the three heights add up to GAME_HEIGHT - groundHeight, and the pipe is
\* at the requested x with passed = FALSE.
C9_GeneratedPipeWithinMargins ==
  probe.fn = "generatePipeAtX" =>
    LET pipe == probe.out
        bottomY == pipe.topHeight + Px(pipeGap)
        bottomHeight == Px(GAME_HEIGHT - groundHeight) - bottomY
    IN /\ pipe.topHeight >= Px(margin)
       /\ bottomHeight >= Px(margin)
       /\ bottomHeight = Px(GAME_HEIGHT - groundHeight - pipeGap) - pipe.topHeight
       /\ pipe.topHeight + Px(pipeGap) + bottomHeight = Px(GAME_HEIGHT - groundHeight)
       /\ pipe.x = probe.x
       /\ pipe.passed = FALSE

C9_Witness ==
  /\ probe.fn = "generatePipeAtX"
  /\ probe.n = RandDenom - 1
  /\ probe.out.topHeight = Px(GAME_HEIGHT - groundHeight - pipeGap - margin - 1)

AtCorner(p) ==
  /\ p.cx \in {p.rx, p.rx + p.rw}
  /\ p.cy \in {p.ry, p.ry + p.rh}

\* C10 as stated: a circle of radius 0 centred at a corner of the rectangle
\* does not collide.
C10_ZeroRadiusAtCornerMisses ==
  (probe.fn = "circleRectCollision" /\ probe.cr = 0 /\ AtCorner(probe))
    => probe.out = FALSE

\* C10 amended: a circle of radius 0 centred at a corner of the rectangle
\* collides (the test is inclusive: distance 0 <= radius 0).
C10_ZeroRadiusAtCornerHits ==
  (probe.fn = "circleRectCollision" /\ probe.cr = 0 /\ AtCorner(probe))
    => probe.out = TRUE

C10_Witness ==
  /\ probe.fn = "circleRectCollision" /\ probe.cr = 0 /\ AtCorner(probe)
  /\ probe.rw > 0 /\ probe.rh > 0
  /\ probe.cx = probe.rx + probe.rw /\ probe.cy = probe.ry + probe.rh
  /\ probe.out = TRUE

\* The points of the closed rectangle with whole coordinates.  For a centre
\* and a rectangle with whole coordinates the point of the rectangle nearest
\* to the centre is one of them, so a point of the rectangle lies within the
\* radius exactly when one of these does.
RectPoints(p) == (p.rx .. p.rx + p.rw) \X (p.ry .. p.ry + p.rh)

WithinRadius(p, q) ==
  (p.cx - q[1]) * (p.cx - q[1]) + (p.cy - q[2]) * (p.cy - q[2]) <= p.cr * p.cr

\* C11: circleRectCollision is TRUE exactly when some point of the closed
\* rectangle [rx, rx+rw] x [ry, ry+rh] lies within distance <= radius of the
\* circle's centre; in particular it is TRUE for every radius when the
\* centre is inside the rectangle.
C11_CollisionIffPointWithinRadius ==
  probe.fn = "circleRectCollision" =>
    /\ probe.out = (\E q \in RectPoints(probe) : WithinRadius(probe, q))
    /\ <<probe.cx, probe.cy>> \in RectPoints(probe) => probe.out = TRUE

\* The circle touches the rectangle at one corner only, diagonally.
C11_Witness ==
  /\ probe.fn = "circleRectCollision"
  /\ probe.cx < probe.rx /\ probe.cy > probe.ry + probe.rh
  /\ (probe.rx - probe.cx) * (probe.rx - probe.cx)
       + (probe.cy - probe.ry - probe.rh) * (probe.cy - probe.ry - probe.rh)
       = probe.cr * probe.cr
  /\ probe.out = TRUE

\* Pipes retired so far in the current run, and the distance the pipes move
\* in an update of dt milliseconds.
Retired == retiredPassed + retiredUnpassed
Travel(dt) == (pipeSpeed * dt * PosScale) \div 1000

\* C12 as stated: each retirement of the head is matched by one append, so
\* the sequence of a run keeps its seeded length.
C12_LengthStaysAtSeedCount == Running => Len(pipes) = seedCount

\* C12 amended: a retirement is not matched by an append.  An update of a
\* run appends exactly one pipe when, after the move and the removal of a
\* retired head, a pipe remains and the last one is left of
\* GAME_WIDTH - pipeSpacing, and appends nothing otherwise, whether or not
\* the head was retired; so the update that retires the head while the tail
\* is still at or right of that line shortens the sequence by one.
C12_AppendFollowsTailNotRetirement ==
  [][(Running /\ TickStep) =>
       LET r == Retired' - Retired
           kept == Len(pipes) - r
           tailX == pipes[Len(pipes)].x - Travel(last'.dt)
           appends == kept >= 1 /\ tailX < Px(GAME_WIDTH - pipeSpacing)
       IN /\ r \in {0, 1}
          /\ Len(pipes') = kept + (IF appends THEN 1 ELSE 0)
          /\ (r = 1 /\ ~appends) => Len(pipes') = Len(pipes) - 1]_vars

\* The first retirement of a run has left three pipes.
C12_Witness ==
  /\ Running /\ last.op = "tick" /\ last.dt > 0
  /\ Retired = 1
  /\ Len(pipes) = seedCount - 1
  /\ pipes[Len(pipes)].x >= Px(GAME_WIDTH - pipeSpacing)

\* The scenario of C13: the strawberry put at y = 0 with velocity 100, and
\* one update of 16 ms.
AtTopMovingDown ==
  probe.fn = "update" /\ probe.y = 0 /\ probe.vy = 100 /\ probe.dt = 16

\* C13 as stated: the update leaves velocity 128.8 and position about 2.06.
C13_TickLeavesIntegratedValues ==
  AtTopMovingDown =>
    /\ probe.out.strawberry.vy * 10 = 1288 * VelScale
    /\ Abs(probe.out.strawberry.y * 100 - 206 * PosScale) <= PosScale

\* C13 amended: the integration gives velocity 100 + 1800 * 0.016 = 128.8
\* and position 128.8 * 0.016 = 2.0608, but that position is less than the
\* radius from the top, so the same update puts the strawberry at
\* y = radius with velocity 0; the run goes on.
C13_TickIntegratesThenClampsAtCeiling ==
  AtTopMovingDown =>
    /\ probe.mid.vy * 10 = 1288 * VelScale
    /\ probe.mid.y * 10000 = 20608 * PosScale
    /\ probe.out.strawberry.y = Px(strawberryRadius)
    /\ probe.out.strawberry.vy = 0
    /\ Phase(probe.out) = "Running"

C13_Witness ==
  /\ AtTopMovingDown
  /\ probe.mid.y > 0 /\ probe.mid.y < Px(strawberryRadius)
  /\ probe.out.strawberry.y = Px(strawberryRadius)

\* The strawberry rests on the ground line.
OnGround ==
  strawberry.y = Px(GAME_HEIGHT - groundHeight) - strawberry.radius

\* C14: in an update of a run, if after the integration the strawberry's
\* lower extent y + radius is below the ground line GAME_HEIGHT -
\* groundHeight, then at the end of the update y = GAME_HEIGHT -
\* groundHeight - radius and the run has ended.
C14_GroundImpactEndsRun ==
  [][(Running /\ TickStep /\ hitsGround(integrate(strawberry, last'.dt)))
       => (OnGround' /\ Ended')]_vars

\* A fall of several frames from the start height, clear of the pipes.
C14_Witness ==
  /\ last.op = "tick" /\ last.from = "Running" /\ last.dt = 232
  /\ Ended /\ OnGround
  /\ pipes[1].x > strawberry.x + strawberry.radius

\* The strawberry's upper extent is on the top boundary.
AtCeiling == strawberry.y = strawberry.radius

TouchesSomePipe == \E i \in 1..Len(pipes) : hitsPipe(strawberry, pipes[i])

\* C15: the ceiling is soft.  In an update of a run, if after the
\* integration the strawberry's upper extent y - radius is above the top
\* boundary, the update leaves y = radius and velocity 0, and the run goes
\* on unless the strawberry touches a pipe in that update.
C15_CeilingIsSoft ==
  [][(Running /\ TickStep /\ hitsCeiling(integrate(strawberry, last'.dt)))
       => /\ AtCeiling'
          /\ strawberry'.vy = 0
          /\ ~TouchesSomePipe' => Running']_vars

\* The strawberry was still rising when the top stopped it.
C15_Witness ==
  /\ last.op = "tick" /\ last.from = "Running" /\ last.dt = 120
  /\ Running /\ AtCeiling /\ strawberry.vy = 0
  /\ strawberry.rotation < 0

\* C16 as stated: from any state, a flap that follows a flap with no update
\* in between changes nothing, so k >= 2 flaps leave the state one flap
\* leaves.
C16_RepeatedFlapsCollapseEverywhere ==
  [][(last.op = "flap" /\ FlapStep) => UNCHANGED gameVars]_vars

\* C16 amended: the flaps collapse while Running only.  A flap that follows
\* a flap made in a run changes nothing; the flap that follows the starting
\* flap (made in Idle) sets the velocity to flapImpulse, and the flap that
\* follows the resetting flap (made in Ended) starts a run.
C16_RepeatedFlapsCollapseWhileRunning ==
  [][/\ (last.op = "flap" /\ last.from = "Running" /\ Running /\ FlapStep)
          => UNCHANGED gameVars
     /\ (last.op = "flap" /\ last.from = "Idle" /\ Running /\ FlapStep)
          => (strawberry'.vy = flapImpulse * VelScale /\ strawberry.vy = 0)
     /\ (last.op = "flap" /\ last.from = "Ended" /\ FlapStep)
          => (Idle /\ Running')]_vars

\* A second flap in a row within a run, after the strawberry had begun to
\* fall.
C16_Witness ==
  /\ last.op = "flap" /\ last.from = "Running" /\ last.again
  /\ Running /\ clock > 0
  /\ strawberry.vy = flapImpulse * VelScale

\* How far c lies outside the interval [lo, hi].
GapTo(c, lo, hi) == IF c < lo THEN lo - c ELSE IF c > hi THEN c - hi ELSE 0

\* The disc of the strawberry and the closed rectangle [x0, x1] x [y0, y1]
\* have a point in common.
DiscMeetsRect(sb, x0, x1, y0, y1) ==
  LET gx == GapTo(sb.x, x0, x1)
      gy == GapTo(sb.y, y0, y1)
  IN /\ gx <= sb.radius /\ gy <= sb.radius
     /\ gx * gx + gy * gy <= sb.radius * sb.radius

MeetsTop(sb, pipe) ==
  DiscMeetsRect(sb, pipe.x, pipe.x + Px(pipeWidth), 0, pipe.topHeight)

MeetsBottom(sb, pipe) ==
  DiscMeetsRect(sb, pipe.x, pipe.x + Px(pipeWidth),
                pipe.topHeight + Px(pipeGap), Px(GAME_HEIGHT - groundHeight))

\* C17: at the end of an update of a run in which the strawberry's disc
\* touches or overlaps the top rectangle [0, topHeight] or the bottom
\* rectangle [topHeight + pipeGap, ground line] of any pipe of the sequence,
\* the run has ended; and a run ends only in an update, through such a
\* contact or through the ground impact.
C17_PipeContactEndsRun ==
  [][/\ (Running /\ TickStep) =>
          LET contact == \E i \in 1..Len(pipes') :
                           \/ MeetsTop(strawberry', pipes'[i])
                           \/ MeetsBottom(strawberry', pipes'[i])
              impact == hitsGround(integrate(strawberry, last'.dt))
          IN /\ contact => Ended'
             /\ Ended' => (contact \/ impact)
     /\ (~Ended /\ Ended') => (Running /\ TickStep)]_vars

\* The run ended in the air, against a bottom segment.
C17_Witness ==
  /\ last.op = "tick" /\ last.from = "Running" /\ Ended
  /\ ~OnGround
  /\ \E i \in 1..Len(pipes) :
       MeetsBottom(strawberry, pipes[i]) /\ ~MeetsTop(strawberry, pipes[i])

\* Consecutive pipes are exactly pipeSpacing apart, x increasing.
EvenlySpaced(ps) ==
  \A i \in 1..Len(ps) - 1 :
    ps[i + 1].x > ps[i].x /\ ps[i + 1].x = ps[i].x + Px(pipeSpacing)

\* C18: the pipe sequence is always ordered by strictly increasing x with
\* consecutive pipes exactly pipeSpacing apart; an update of a run removes
\* at most one pipe, the head, and only when head.x + pipeWidth < -10 after
\* the move, keeps the others in order, and appends at most one pipe, at
\* the tail, at tail.x + pipeSpacing and only when tail.x < GAME_WIDTH -
\* pipeSpacing.
C18_PipesEvenlySpacedHeadOutTailIn ==
  [][/\ EvenlySpaced(pipes')
     /\ (Running /\ TickStep) =>
          \E r \in {0, 1}, a \in {0, 1} :
            LET kept == Len(pipes) - r
                headX == pipes[1].x - Travel(last'.dt)
                tailX == pipes[Len(pipes)].x - Travel(last'.dt)
            IN /\ Len(pipes') = kept + a
               /\ \A j \in 1..kept :
                    /\ pipes'[j].x = pipes[j + r].x - Travel(last'.dt)
                    /\ pipes'[j].topHeight = pipes[j + r].topHeight
               /\ r = 1 => headX + Px(pipeWidth) < Px(0 - retireMargin)
               /\ a = 1 => /\ kept >= 1
                           /\ tailX < Px(GAME_WIDTH - pipeSpacing)
                           /\ pipes'[kept + 1].x = tailX + Px(pipeSpacing)]_vars

\* A fifth pipe has been appended behind what is left of the seeded four.
C18_Witness ==
  /\ Running /\ last.op = "tick" /\ last.dt > 0
  /\ Retired + Len(pipes) > seedCount
  /\ Len(pipes) >= 2
  /\ pipes[Len(pipes)].x >= Px(GAME_WIDTH - pipeSpacing)

\* An update of a run that directly follows a flap made in that run and
\* leaves the strawberry clear of the ground and of the top.
TickAfterRunningFlap ==
  /\ Running /\ last.op = "flap" /\ last.from = "Running" /\ TickStep
  /\ ~OnGround' /\ ~AtCeiling'

\* C19 as stated: the update that follows a flap integrates the position
\* with the impulse itself, gravity not added: y changes by flapImpulse * dt.
C19_FlapTickUsesImpulseAlone ==
  [][TickAfterRunningFlap =>
       strawberry'.y =
         strawberry.y + (flapImpulse * VelScale * last'.dt) \div DtStep]_vars

\* C19 amended: the flap has already set the velocity to flapImpulse when
\* the update begins (there is no pending request), and the update adds
\* gravity * dt to it like to any other velocity before it integrates the
\* position: the velocity used is clamp(flapImpulse + gravity * dt) and y
\* changes by that velocity times dt.
C19_FlapTickAddsGravity ==
  [][TickAfterRunningFlap =>
       LET dt == last'.dt
           v == flapImpulse * VelScale + (gravity * VelScale * dt) \div 1000
           used == Max(terminalVelUp * VelScale,
                       Min(terminalVelDown * VelScale, v))
       IN /\ strawberry.vy = flapImpulse * VelScale
          /\ strawberry'.vy = used
          /\ strawberry'.y = strawberry.y + (used * dt) \div DtStep]_vars

\* The frame after a flap has left the velocity flapImpulse + gravity * dt.
C19_Witness ==
  /\ last.op = "tick" /\ last.from = "Running" /\ last.dt = 232
  /\ Running /\ ~AtCeiling /\ clock > 232
  /\ strawberry.vy = flapImpulse * VelScale + (gravity * VelScale * 232) \div 1000

\* C20: in every state reachable by flaps and updates, whatever the dt of
\* the updates, the strawberry is within the playfield:
\* radius <= y <= GAME_HEIGHT - groundHeight - radius.
C20_AvatarWithinBounds ==
  /\ strawberry.y >= strawberry.radius
  /\ strawberry.y <= Px(GAME_HEIGHT - groundHeight) - strawberry.radius

\* A stalled frame has thrown the rising strawberry onto the ground.
C20_Witness ==
  /\ last.op = "tick" /\ last.from = "Running" /\ last.dt = 1440
  /\ clock > 1440
  /\ OnGround /\ Ended

\* C21: whenever the new-best flag is set, score = best and score >= 1; a
\* flag that is set is cleared only by the reset flap made in Ended; and the
\* flag is false whenever a run is entered.
C21_NewBestFlagTracksBest ==
  [][/\ state'.newBestAchieved =>
          (state'.score = state'.best /\ state'.score >= 1)
     /\ (state.newBestAchieved /\ ~state'.newBestAchieved) =>
          (Ended /\ FlapStep)
     /\ (~Running /\ Running') => ~state'.newBestAchieved]_vars

\* The flag, set by the first pipe of the run, has stayed set through the
\* update that scored the second.
C21_Witness ==
  /\ Running /\ last.op = "tick"
  /\ state.newBestAchieved
  /\ state.score = 2 /\ state.best = 2

\* C22: when the updates come from the animation loop (dt capped at 32 ms),
\* the pipe sequence is never empty during a run: the tail-based spawn rule
\* always has a tail to look at.
C22_PipesNeverEmptyWhileRunning == Running => Len(pipes) >= 1

\* Three of the seeded pipes are gone, and a new pipe has been appended
\* behind the one that was left.
C22_Witness ==
  /\ Running /\ last.op = "tick" /\ last.dt = FrameCap
  /\ Retired = seedCount - 1
  /\ Len(pipes) = 2
  /\ pipes[2].x >= Px(GAME_WIDTH - pipeSpacing)

\* C23: when the updates come from the animation loop (dt capped at 32 ms),
\* the head is never retired while its passed flag is false: the pipe an
\* update retires was marked passed, and counted in the score, by an
\* earlier update.
C23_RetiredHeadAlreadyPassed ==
  [][(Running /\ TickStep /\ Retired' > Retired) =>
       (/\ pipes[1].passed
        /\ retiredUnpassed' = 0
        /\ state.score >= Retired')]_vars

\* The first pipe of a run has scrolled off, its point counted.
C23_Witness ==
  /\ Running /\ last.op = "tick" /\ last.dt = FrameCap
  /\ retiredPassed = 1 /\ retiredUnpassed = 0
  /\ state.score >= 1
  /\ Len(pipes) = seedCount - 1

====
